---- MODULE Spec2Model ----
(***************************************************************************)
(* Model of directus-extension-models (src/src/index.ts): the `models      *)
(* snapshot` command that turns a Directus schema into one .d.ts unit per  *)
(* collection plus an index unit.                                          *)
(*                                                                         *)
(* Text is modelled by TLA+ strings, built with \o as the template         *)
(* literals of the source build them.  Where the source works on the       *)
(* characters of a string (split, toUpperCase, replaceAll) the string is   *)
(* kept as a sequence of one-character strings and joined by Str.          *)
(***************************************************************************)
EXTENDS Integers, Sequences, FiniteSets, TLC

VARIABLES schema, fieldRows, pc, ci, fi, imports, source, files, console,
          queries, mapperLog, ioFailure

vars == <<schema, fieldRows, pc, ci, fi, imports, source, files, console,
          queries, mapperLog, ioFailure>>

(***************************************************************************)
(* Bounds of the model.                                                    *)
(***************************************************************************)
\* most fields a collection of a checked catalog has
MaxFields == 2
\* most relation records a checked schema has
MaxRelations == 2
\* most entries of a configured choice list
MaxChoices == 2
\* most metadata queries that fail in one run
MaxQueryFailures == 1

(***************************************************************************)
(* Strings as character sequences.                                         *)
(***************************************************************************)
RECURSIVE Str(_)
Str(chars) == IF chars = <<>> THEN "" ELSE chars[1] \o Str(Tail(chars))

LowerLetters == <<"a", "e", "g", "o", "p", "r", "s", "t", "u">>
UpperLetters == <<"A", "E", "G", "O", "P", "R", "S", "T", "U">>

toUpperCase(c) ==
    IF \E i \in 1..Len(LowerLetters) : LowerLetters[i] = c
    THEN UpperLetters[CHOOSE i \in 1..Len(LowerLetters) : LowerLetters[i] = c]
    ELSE c

toLowerCase(c) ==
    IF \E i \in 1..Len(UpperLetters) : UpperLetters[i] = c
    THEN LowerLetters[CHOOSE i \in 1..Len(UpperLetters) : UpperLetters[i] = c]
    ELSE c

\* value.split('_'): the parts between the separators, empty parts included
RECURSIVE split(_, _)
split(chars, part) ==
    IF chars = <<>> THEN <<part>>
    ELSE IF chars[1] = "_" THEN <<part>> \o split(Tail(chars), <<>>)
    ELSE split(Tail(chars), Append(part, chars[1]))

\* part[0].toUpperCase() + part.substring(1).toLowerCase()
capitalize(part) ==
    <<toUpperCase(part[1])>> \o [i \in 1..(Len(part) - 1) |-> toLowerCase(part[i + 1])]

RECURSIVE joinParts(_)
joinParts(parts) ==
    IF parts = <<>> THEN <<>> ELSE capitalize(parts[1]) \o joinParts(Tail(parts))

\* upperCamelCase, for a value none of whose parts is empty
upperCamelCase(value) == joinParts(split(value, <<>>))

\* pluralize.singular, for the regular plurals of the catalog: a final "s" is dropped
singular(plural) ==
    IF Len(plural) > 1 /\ plural[Len(plural)] = "s"
    THEN SubSeq(plural, 1, Len(plural) - 1)
    ELSE plural

(***************************************************************************)
(* Results of a call: a value, null, or a thrown error.                    *)
(***************************************************************************)
Ok(v, m) == [tag |-> "ok", val |-> v, mapped |-> m]
Null == [tag |-> "null", val |-> <<>>, mapped |-> FALSE]
Throw(m) == [tag |-> "throw", val |-> <<>>, mapped |-> m]

\* schema.collections[name] of a name the catalog does not hold
Undefined == [collection |-> <<>>, fields |-> <<>>, undefined |-> TRUE]

collectionOf(sch, name) ==
    IF \E i \in 1..Len(sch.collections) : sch.collections[i].collection = name
    THEN sch.collections[CHOOSE i \in 1..Len(sch.collections) :
                             sch.collections[i].collection = name]
    ELSE Undefined

\* className: reading .collection of undefined throws
className(collection) ==
    IF collection.undefined THEN Throw(FALSE)
    ELSE Ok(Str(upperCamelCase(singular(collection.collection))), FALSE)

importLine(name) == "import { " \o name \o " } from \"./" \o name \o "\";"

(***************************************************************************)
(* Scalar Type Mapper.                                                     *)
(***************************************************************************)
fieldTypeToJsType(field) ==
    CASE field.type = "boolean" -> Ok("boolean", TRUE)
      [] field.type \in {"integer", "float", "decimal", "bigInteger"} -> Ok("number", TRUE)
      [] field.type \in {"dateTime", "date", "time", "timestamp"} -> Ok("string", TRUE)
      [] field.type \in {"text", "string", "uuid", "hash"} -> Ok("string", TRUE)
      [] field.type = "json" -> Ok("any", TRUE)
      [] field.type = "csv" -> Ok("string[]", TRUE)
      [] OTHER -> Throw(TRUE)

(***************************************************************************)
(* Relation Classifier.                                                    *)
(***************************************************************************)
\* Array.prototype.find: the first of the indices whose element satisfies the test
findIndex(matching) ==
    IF matching = {} THEN 0 ELSE CHOOSE i \in matching : \A j \in matching : i <= j

forwardIndex(field, collection, sch) ==
    findIndex({ i \in 1..Len(sch.relations) :
                  /\ sch.relations[i].collection = collection.collection
                  /\ sch.relations[i].field = field.field })

\* as fieldToRelationType, but the key is always the field's scalar type
fieldToRelationTypeScalarKey(field, collection, sch) ==
    LET k == forwardIndex(field, collection, sch) IN
    IF k = 0 THEN Null
    ELSE
      LET target == className(collectionOf(sch, sch.relations[k].related_collection))
          keyType == fieldTypeToJsType(field)
      IN
      IF target.tag = "throw" THEN Throw(FALSE)
      ELSE IF keyType.tag = "throw" THEN Throw(keyType.mapped)
      ELSE IF target.val = className(collection).val
      THEN Ok(<<target.val \o " | " \o keyType.val>>, keyType.mapped)
      ELSE Ok(<<target.val \o " | " \o keyType.val, importLine(target.val)>>, keyType.mapped)

fieldToRelationType(field, collection, sch) ==
    LET k == forwardIndex(field, collection, sch) IN
    IF k = 0 THEN Null
    ELSE
      LET relation == sch.relations[k]
          target == className(collectionOf(sch, relation.related_collection))
      IN
      IF target.tag = "throw" THEN Throw(FALSE)
      ELSE
        LET targetClassName == target.val
            keyType ==
              IF relation.schema.foreign_key_column # ""
              THEN Ok(targetClassName \o "[\"" \o relation.schema.foreign_key_column \o "\"]",
                      FALSE)
              ELSE fieldTypeToJsType(field)
        IN
        IF keyType.tag = "throw" THEN Throw(keyType.mapped)
        ELSE IF targetClassName = className(collection).val
        THEN Ok(<<targetClassName \o " | " \o keyType.val>>, keyType.mapped)
        ELSE Ok(<<targetClassName \o " | " \o keyType.val, importLine(targetClassName)>>,
                keyType.mapped)

\* the test of the source: the one side's collection, and any non-empty one_field
aliasIndex(field, collection, sch) ==
    findIndex({ i \in 1..Len(sch.relations) :
                  /\ sch.relations[i].meta.one_collection = collection.collection
                  /\ sch.relations[i].meta.one_field # "" })

aliasToType(field, collection, sch) ==
    LET k == aliasIndex(field, collection, sch) IN
    IF k = 0 THEN Null
    ELSE
      LET relation == sch.relations[k]
          target == className(collectionOf(sch, relation.meta.many_collection))
      IN
      IF target.tag = "throw" THEN Throw(FALSE)
      ELSE IF target.val = className(collection).val
      THEN Ok(<<target.val>>, FALSE)
      ELSE Ok(<<target.val \o "[]", importLine(target.val)>>, FALSE)

(***************************************************************************)
(* Enumerated Choice Resolver.                                             *)
(***************************************************************************)
\* the directus_fields row of a field that has none: [0] of an empty result
NoItem == [collection |-> <<>>, field |-> "", options |-> [present |-> FALSE, choices |-> <<>>]]

\* fieldsService.readByQuery({filter: {collection, field}, limit: 1})[0]
readByQuery(rows, collection, field) ==
    LET k == findIndex({ i \in 1..Len(rows) :
                           /\ rows[i].collection = collection.collection
                           /\ rows[i].field = field.field })
    IN  IF k = 0 THEN NoItem ELSE rows[k]

\* value.replaceAll('\'', '\\\''), on the characters of the value
RECURSIVE replaceAll(_)
replaceAll(chars) ==
    IF chars = <<>> THEN <<>>
    ELSE (IF chars[1] = "'" THEN <<"\\", "'">> ELSE <<chars[1]>>) \o replaceAll(Tail(chars))

literal(choice) == "'" \o Str(replaceAll(choice.value)) \o "'"

RECURSIVE join(_, _)
join(strings, sep) ==
    IF strings = <<>> THEN ""
    ELSE IF Len(strings) = 1 THEN strings[1]
    ELSE strings[1] \o sep \o join(Tail(strings), sep)

\* choices.map(...).join(' | '): replaceAll of a value that is no string throws
choicesToType(choices) ==
    IF \E i \in 1..Len(choices) : ~choices[i].isString THEN Throw(FALSE)
    ELSE Ok(join([i \in 1..Len(choices) |-> literal(choices[i])], " | "), FALSE)

hasChoices(fieldItem) == fieldItem.options.present /\ Len(fieldItem.options.choices) > 0

(***************************************************************************)
(* Model Emitter: one iteration of the loop over the fields.               *)
(***************************************************************************)
\* as resolveType, but the choices are looked up before the relations
resolveTypeChoicesFirst(field, collection, sch, rows, transportOk) ==
    LET relation == IF field.alias THEN aliasToType(field, collection, sch)
                    ELSE fieldToRelationType(field, collection, sch)
        fieldItem == readByQuery(rows, collection, field)
    IN
    IF ~transportOk
    THEN [tag |-> "throw", type |-> "", lines |-> <<>>, queried |-> TRUE, mapped |-> FALSE]
    ELSE IF hasChoices(fieldItem)
    THEN LET result == choicesToType(fieldItem.options.choices) IN
         [tag |-> result.tag, type |-> IF result.tag = "ok" THEN result.val ELSE "",
          lines |-> <<>>, queried |-> TRUE, mapped |-> FALSE]
    ELSE IF relation.tag = "throw"
    THEN [tag |-> "throw", type |-> "", lines |-> <<>>, queried |-> TRUE,
          mapped |-> relation.mapped]
    ELSE IF relation.tag = "ok"
    THEN [tag |-> "ok", type |-> relation.val[1], lines |-> Tail(relation.val),
          queried |-> TRUE, mapped |-> relation.mapped]
    ELSE LET result == fieldTypeToJsType(field) IN
         [tag |-> result.tag, type |-> IF result.tag = "ok" THEN result.val ELSE "",
          lines |-> <<>>, queried |-> TRUE, mapped |-> result.mapped]

\* lines 117-147: the type and the import lines of a field, or the error thrown.
\* queried tells whether the metadata query was issued, transportOk its outcome.
resolveType(field, collection, sch, rows, transportOk) ==
    LET relation == IF field.alias THEN aliasToType(field, collection, sch)
                    ELSE fieldToRelationType(field, collection, sch)
    IN
    IF relation.tag = "throw"
    THEN [tag |-> "throw", type |-> "", lines |-> <<>>, queried |-> FALSE,
          mapped |-> relation.mapped]
    ELSE IF relation.tag = "ok"
    THEN [tag |-> "ok", type |-> relation.val[1], lines |-> Tail(relation.val),
          queried |-> FALSE, mapped |-> relation.mapped]
    ELSE IF ~transportOk
    THEN [tag |-> "throw", type |-> "", lines |-> <<>>, queried |-> TRUE, mapped |-> FALSE]
    ELSE
      LET fieldItem == readByQuery(rows, collection, field)
          result == IF hasChoices(fieldItem) THEN choicesToType(fieldItem.options.choices)
                    ELSE fieldTypeToJsType(field)
      IN [tag |-> result.tag, type |-> IF result.tag = "ok" THEN result.val ELSE "",
          lines |-> <<>>, queried |-> TRUE, mapped |-> result.mapped]

\* as widen, but a thrown error gives any
widenAny(field, resolved) ==
    IF resolved.tag = "throw" THEN "any"
    ELSE IF field.nullable THEN resolved.type \o " | null"
    ELSE resolved.type

\* as widen, but the null marker is put on the failed field too
widenNever(field, resolved) ==
    IF field.nullable
    THEN (IF resolved.tag = "throw" THEN "never" ELSE resolved.type) \o " | null"
    ELSE IF resolved.tag = "throw" THEN "never" ELSE resolved.type

\* lines 148-163: the null marker of a nullable field; a thrown error gives never
widen(field, resolved) ==
    IF resolved.tag = "throw" THEN "never"
    ELSE IF field.nullable THEN resolved.type \o " | null"
    ELSE resolved.type

\* lines 120-124: each import line is pushed unless the list includes it
RECURSIVE pushImports(_, _)
pushImports(list, lines) ==
    IF lines = <<>> THEN list
    ELSE pushImports(IF \E i \in 1..Len(list) : list[i] = lines[1]
                     THEN list ELSE Append(list, lines[1]),
                     Tail(lines))

\* lines 164-171: the documentation comment and the member line of a field
memberLine(field, type) ==
    "\n  /**\n   * " \o (IF field.note # "" THEN field.note ELSE "No description.")
    \o "\n   *\n   * Type in directus: " \o field.type
    \o "\n   * Type in database: " \o (IF field.dbType # "" THEN field.dbType ELSE "no column")
    \o "\n   */\n   " \o field.field \o ": " \o type \o ";\n"

header(collection) == "export interface " \o className(collection).val \o " {\n"

\* lines 174-181: the unit, as the sequence of the pieces its text is made of
unitText(importList, sourceLines) ==
    [i \in 1..Len(importList) |-> importList[i] \o "\n"] \o <<"\n">> \o sourceLines \o <<"}\n">>

\* lines 113-172: what one iteration makes of imports and source
step(st, field, collection, sch, rows, transportOk) ==
    LET resolved == resolveType(field, collection, sch, rows, transportOk) IN
    [imports |-> IF resolved.tag = "ok" THEN pushImports(st.imports, resolved.lines)
                 ELSE st.imports,
     source |-> Append(st.source, memberLine(field, widen(field, resolved)))]

\* generateModel after its first n iterations; failed holds the fields whose query fails
RECURSIVE generateModelState(_, _, _, _, _)
generateModelState(collection, n, sch, rows, failed) ==
    IF n = 0 THEN [imports |-> <<>>, source |-> <<header(collection)>>]
    ELSE step(generateModelState(collection, n - 1, sch, rows, failed),
              collection.fields[n], collection, sch, rows,
              collection.fields[n].field \notin failed)

generateModel(collection, sch, rows, failed) ==
    LET st == generateModelState(collection, Len(collection.fields), sch, rows, failed)
    IN  unitText(st.imports, st.source)

(***************************************************************************)
(* Index Emitter.                                                          *)
(***************************************************************************)
\* as generateIndex, but the members are keyed by the identifier
generateIndexByIdentifier(collections) ==
    [i \in 1..Len(collections) |-> importLine(className(collections[i]).val) \o "\n"]
    \o <<"\nexport interface Collections {\n">>
    \o [i \in 1..Len(collections) |->
          "  " \o className(collections[i]).val \o ": "
               \o className(collections[i]).val \o ";\n"]
    \o <<"}\n">>

generateIndex(collections) ==
    [i \in 1..Len(collections) |-> importLine(className(collections[i]).val) \o "\n"]
    \o <<"\nexport interface Collections {\n">>
    \o [i \in 1..Len(collections) |->
          "  " \o Str(collections[i].collection) \o ": "
               \o className(collections[i]).val \o ";\n"]
    \o <<"}\n">>

outFile(collection) == "models/" \o className(collection).val \o ".d.ts"

(***************************************************************************)
(* The schemas checked: the parts of one Directus schema, tags with a      *)
(* parent/children tree and user_tags linking to tags.                     *)
(***************************************************************************)
Tags == <<"t", "a", "g", "s">>
UserTags == <<"u", "s", "e", "r", "_", "t", "a", "g", "s">>

Field(name, type, nullable, note, dbType) ==
    [field |-> name, type |-> type, alias |-> (type = "alias"), nullable |-> nullable,
     note |-> note, dbType |-> dbType]

TagsFields ==
    << Field("parent", "integer", TRUE, "The parent tag", "integer"),
       Field("children", "alias", FALSE, "", ""),
       Field("links", "alias", TRUE, "", ""),
       Field("status", "string", FALSE, "", "varchar"),
       Field("shape", "geometry", TRUE, "", "geometry") >>

UserTagsFields ==
    << Field("tag", "integer", FALSE, "", "integer"),
       Field("owner", "uuid", TRUE, "", "char"),
       Field("area", "geometry", FALSE, "", "geometry") >>

Relation(collection, field, related, fk, oneField) ==
    [collection |-> collection, field |-> field, related_collection |-> related,
     schema |-> [foreign_key_column |-> fk],
     meta |-> [one_collection |-> related, one_field |-> oneField,
               many_collection |-> collection]]

\* an empty foreign_key_column or one_field stands for null
AllRelations ==
    << Relation(Tags, "parent", Tags, "id", "children"),
       Relation(UserTags, "tag", Tags, "", "links"),
       Relation(UserTags, "owner", Tags, "id", ""),
       Relation(UserTags, "area", Tags, "", "") >>

ChoiceA == [value |-> <<"a">>, isString |-> TRUE]
ChoiceQuote == [value |-> <<"b", "'", "c">>, isString |-> TRUE]
ChoiceNumber == [value |-> <<"7">>, isString |-> FALSE]

Row(collection, field, present, choices) ==
    [collection |-> collection, field |-> field,
     options |-> [present |-> present, choices |-> choices]]

\* directus_fields as configured for the schema above
DefaultRows ==
    << Row(Tags, "parent", TRUE, <<ChoiceA>>),
       Row(Tags, "status", TRUE, <<ChoiceA, ChoiceQuote>>),
       Row(Tags, "shape", FALSE, <<>>),
       Row(UserTags, "owner", TRUE, <<ChoiceA>>) >>

\* the elements of list at the indices in S, in the order of list
RECURSIVE pick(_, _, _)
pick(list, S, i) ==
    IF i > Len(list) THEN <<>>
    ELSE (IF i \in S THEN <<list[i]>> ELSE <<>>) \o pick(list, S, i + 1)

SubLists(list, least, most) ==
    { pick(list, S, 1) :
        S \in { T \in SUBSET (1..Len(list)) : Cardinality(T) >= least /\ Cardinality(T) <= most } }

Collection(name, fields) == [collection |-> name, fields |-> fields, undefined |-> FALSE]

TagsShapes == { Collection(Tags, fs) : fs \in SubLists(TagsFields, 1, MaxFields) }
UserTagsShapes == { Collection(UserTags, fs) : fs \in SubLists(UserTagsFields, 1, MaxFields) }

Catalogs ==
    { <<t>> : t \in TagsShapes } \cup { <<u>> : u \in UserTagsShapes }
    \cup { <<t, u>> : t \in TagsShapes, u \in UserTagsShapes }
    \cup { <<u, t>> : t \in TagsShapes, u \in UserTagsShapes }

\* the schemas with relations, under the configured directus_fields
RelationSchemas ==
    { [collections |-> c, relations |-> r, rows |-> DefaultRows] :
        c \in Catalogs, r \in SubLists(AllRelations, 0, MaxRelations) }

ChoiceLists == UNION { [1..n -> {ChoiceA, ChoiceQuote, ChoiceNumber}] : n \in 0..MaxChoices }

\* what directus_fields may hold for one field: no row, a row without choices, a list
RowsOf(collection, field) ==
    { <<>>, <<Row(collection, field.field, FALSE, <<>>)>> }
    \cup { <<Row(collection, field.field, TRUE, l)>> : l \in ChoiceLists }

RECURSIVE RowTables(_, _)
RowTables(collection, fields) ==
    IF fields = <<>> THEN { <<>> }
    ELSE { r \o rest : r \in RowsOf(collection, fields[1]),
                       rest \in RowTables(collection, Tail(fields)) }

\* the schemas without relations, under every directus_fields of their fields
ChoiceSchemas ==
    { [collections |-> <<Collection(Tags, fs)>>, relations |-> <<>>, rows |-> rows] :
        fs \in SubLists(SubSeq(TagsFields, 4, 5), 1, MaxFields),
        rows \in RowTables(Tags, SubSeq(TagsFields, 4, 5)) }

(***************************************************************************)
(* The snapshot command, lines 208-226.                                    *)
(***************************************************************************)
collections == schema.collections

current == collections[ci]

Init ==
    /\ \E s \in RelationSchemas \cup ChoiceSchemas :
          /\ schema = [collections |-> s.collections, relations |-> s.relations]
          /\ fieldRows = s.rows
    /\ pc = "start"
    /\ ci = 0
    /\ fi = 0
    /\ imports = <<>>
    /\ source = <<>>
    /\ files = <<>>
    /\ console = <<>>
    /\ queries = <<>>
    /\ mapperLog = <<>>
    /\ ioFailure = "none"

\* generateModel up to its loop: lines 105-111
EnterModel(k) ==
    /\ ci' = k
    /\ fi' = 1
    /\ imports' = <<>>
    /\ source' = <<header(collections[k])>>

\* getSchema and mkdir succeed, and the first collection is entered
Mkdir ==
    /\ pc = "start"
    /\ pc' = "fields"
    /\ EnterModel(1)
    /\ UNCHANGED <<schema, fieldRows, files, console, queries, mapperLog, ioFailure>>

MkdirFails ==
    /\ pc = "start"
    /\ pc' = "aborted"
    /\ ioFailure' = "mkdir"
    /\ UNCHANGED <<schema, fieldRows, ci, fi, imports, source, files, console, queries,
                   mapperLog>>

failedQueries == Cardinality({ i \in 1..Len(queries) : ~queries[i].ok })

\* one iteration of the loop of generateModel, lines 113-172
Iterate(transportOk) ==
    LET field == current.fields[fi]
        resolved == resolveType(field, current, schema, fieldRows, transportOk)
        entry == [collection |-> current.collection, field |-> field.field]
        st == step([imports |-> imports, source |-> source], field, current, schema,
                   fieldRows, transportOk)
    IN
    /\ imports' = st.imports
    /\ source' = st.source
    /\ console' = IF resolved.tag = "throw" THEN Append(console, entry) ELSE console
    /\ queries' = IF resolved.queried
                  THEN Append(queries, [collection |-> current.collection,
                                        field |-> field.field, ok |-> transportOk])
                  ELSE queries
    /\ mapperLog' = IF resolved.mapped THEN Append(mapperLog, entry) ELSE mapperLog
    /\ fi' = fi + 1
    /\ UNCHANGED <<schema, fieldRows, pc, ci, files, ioFailure>>

isRelationStep ==
    resolveType(current.fields[fi], current, schema, fieldRows, TRUE).queried = FALSE

\* the field is settled by the relation classifier (or its error): no query
FieldRelation ==
    /\ pc = "fields" /\ fi <= Len(current.fields)
    /\ isRelationStep
    /\ Iterate(TRUE)

\* the field is no relation: the metadata query is issued and answers
FieldQueried ==
    /\ pc = "fields" /\ fi <= Len(current.fields)
    /\ ~isRelationStep
    /\ Iterate(TRUE)

\* the field is no relation: the metadata query is issued and fails
FieldQueryFails ==
    /\ pc = "fields" /\ fi <= Len(current.fields)
    /\ ~isRelationStep
    /\ failedQueries < MaxQueryFailures
    /\ Iterate(FALSE)

\* generateModel returns and writeFile succeeds, lines 174-181 and 219-220
WriteModel ==
    /\ pc = "fields" /\ fi > Len(current.fields)
    /\ files' = Append(files, [file |-> outFile(current),
                               content |-> unitText(imports, source)])
    /\ IF ci < Len(collections)
       THEN /\ EnterModel(ci + 1)
            /\ pc' = "fields"
       ELSE /\ pc' = "index"
            /\ UNCHANGED <<ci, fi, imports, source>>
    /\ UNCHANGED <<schema, fieldRows, console, queries, mapperLog, ioFailure>>

\* as WriteFails, but the error is swallowed and the run goes on to its exit
WriteFailsSwallowed ==
    /\ \/ pc = "fields" /\ fi > Len(current.fields)
       \/ pc = "index"
    /\ pc' = IF pc = "index" THEN "exited" ELSE "index"
    /\ ioFailure' = "write"
    /\ UNCHANGED <<schema, fieldRows, ci, fi, imports, source, files, console, queries,
                   mapperLog>>

WriteFails ==
    /\ \/ pc = "fields" /\ fi > Len(current.fields)
       \/ pc = "index"
    /\ pc' = "aborted"
    /\ ioFailure' = "write"
    /\ UNCHANGED <<schema, fieldRows, ci, fi, imports, source, files, console, queries,
                   mapperLog>>

\* the index is written and the process exits with 0, lines 224-225
WriteIndex ==
    /\ pc = "index"
    /\ files' = Append(files, [file |-> "models/index.d.ts",
                               content |-> generateIndex(collections)])
    /\ pc' = "exited"
    /\ UNCHANGED <<schema, fieldRows, ci, fi, imports, source, console, queries,
                   mapperLog, ioFailure>>

Next ==
    \/ Mkdir
    \/ MkdirFails
    \/ FieldRelation
    \/ FieldQueried
    \/ FieldQueryFails
    \/ WriteModel
    \/ WriteFails
    \/ WriteIndex

Spec == Init /\ [][Next]_vars

(***************************************************************************)
(* Vocabulary of the properties.                                           *)
(***************************************************************************)
\* the number of fields of the current collection emitted so far
done == IF pc = "fields" THEN fi - 1 ELSE 0

entryOf(collection, field) == [collection |-> collection.collection, field |-> field.field]

queryFailed(collection, field) ==
    \E i \in 1..Len(queries) :
        queries[i] = [collection |-> collection.collection, field |-> field.field, ok |-> FALSE]

wasQueried(collection, field) ==
    \E i \in 1..Len(queries) :
        queries[i].collection = collection.collection /\ queries[i].field = field.field

failedFields(collection) ==
    { queries[i].field :
        i \in { n \in 1..Len(queries) :
                  queries[n].collection = collection.collection /\ ~queries[n].ok } }

\* the resolution of a field under the outcome its query had in this run
resolvedOf(collection, field) ==
    resolveType(field, collection, schema, fieldRows, ~queryFailed(collection, field))

diagnostics(collection, field) ==
    Cardinality({ i \in 1..Len(console) : console[i] = entryOf(collection, field) })

mapperConsulted(collection, field) ==
    \E i \in 1..Len(mapperLog) : mapperLog[i] = entryOf(collection, field)

removeAt(list, i) == SubSeq(list, 1, i - 1) \o SubSeq(list, i + 1, Len(list))

\* the schema without field j of collection k
schemaWithout(k, j) == [schema EXCEPT !.collections[k].fields = removeAt(@, j)]

catalogHas(name) == ~collectionOf(schema, name).undefined

identifierOf(name) == className(collectionOf(schema, name)).val

nullable(field, type) == IF field.nullable THEN type \o " | null" ELSE type

\* the relation records that belong to a field: by (collection, field) for a column,
\* by the one side's (one_collection, one_field) for an alias
ownRelations(collection, field) ==
    { i \in 1..Len(schema.relations) :
        IF field.alias
        THEN /\ schema.relations[i].meta.one_collection = collection.collection
             /\ schema.relations[i].meta.one_field = field.field
        ELSE /\ schema.relations[i].collection = collection.collection
             /\ schema.relations[i].field = field.field }

relatedOf(field, i) ==
    IF field.alias THEN schema.relations[i].meta.many_collection
    ELSE schema.relations[i].related_collection

\* the run classified the emitted field as a relation: it issued no query for it
classifiedRelation(collection, field) == ~wasQueried(collection, field)

(***************************************************************************)
(* C1. Fail-soft per field: a field whose resolution raises an error is    *)
(* emitted with type never and reported by one diagnostic naming its       *)
(* collection and field; the import lines and the member lines of the      *)
(* other fields of the collection are those of the collection without the  *)
(* field, the unit of every other collection is that of the schema without *)
(* the field, and the run that exits has written one unit per collection.  *)
(***************************************************************************)
C1_FailSoftPerField ==
    /\ \A j \in 1..done :
         LET f == current.fields[j]
             without == schemaWithout(ci, j)
             rest == generateModelState(without.collections[ci], done - 1, without,
                                        fieldRows, failedFields(current) \ {f.field})
         IN  resolvedOf(current, f).tag = "throw" =>
               /\ source[j + 1] = memberLine(f, "never")
               /\ diagnostics(current, f) = 1
               /\ imports = rest.imports
               /\ removeAt(source, j + 1) = rest.source
    /\ \A k \in 1..Len(files) :
         k <= Len(collections) =>
           /\ files[k].file = outFile(collections[k])
           /\ \A e \in (1..Len(collections)) \ {k} :
                \A j \in 1..Len(collections[e].fields) :
                   files[k].content =
                      generateModel(collections[k], schemaWithout(e, j), fieldRows,
                                    failedFields(collections[k]))
    /\ pc = "exited" => Len(files) = Len(collections) + 1

\* a run that exits after an unsupported kind and a failed query made two fields never
C1_Witness ==
    /\ pc = "exited"
    /\ Len(collections) = 2
    /\ failedQueries = 1
    /\ Len(console) >= 2
    /\ \E i \in 1..Len(console) : console[i].field = "shape"

(***************************************************************************)
(* C2. The alias lookup is keyed by collection and field: the relation     *)
(* that resolves an alias field has one_collection equal to the collection *)
(* and one_field equal to the field, so an alias field is emitted with the *)
(* many side of its own relation, and an alias field that no relation      *)
(* names is not classified as a relation.                                  *)
(***************************************************************************)
C2_AliasKeyedByField ==
    \A j \in 1..done :
      LET f == current.fields[j] IN
      f.alias =>
        /\ classifiedRelation(current, f) => ownRelations(current, f) # {}
        /\ \A i \in ownRelations(current, f) :
             catalogHas(relatedOf(f, i)) =>
               source[j + 1] \in
                  { memberLine(f, nullable(f, identifierOf(relatedOf(f, i)) \o "[]")),
                    memberLine(f, nullable(f, identifierOf(relatedOf(f, i)))) }

(***************************************************************************)
(* C3. An alias field classified as a reverse relation is emitted as       *)
(* Related[], the array of the many side's identifier, also when the many  *)
(* side is the owning collection.                                          *)
(***************************************************************************)
C3_AliasIsArray ==
    \A j \in 1..done :
      LET f == current.fields[j]
          k == aliasIndex(f, current, schema)
      IN  (f.alias /\ k # 0 /\ catalogHas(schema.relations[k].meta.many_collection)) =>
            source[j + 1] =
               memberLine(f, nullable(f, identifierOf(schema.relations[k].meta.many_collection)
                                          \o "[]"))

(***************************************************************************)
(* C4. A column with a relation record matching (collection, field) whose  *)
(* related collection is in the catalog resolves to Related | Related["c"] *)
(* when the relation has the foreign key column c, and to Related | S when *)
(* it has none and the Scalar Type Mapper gives S for the field's type;    *)
(* the member line holds that type (with the null marker of a nullable     *)
(* field).                                                                 *)
(***************************************************************************)
C4_ForwardRelationType ==
    \A j \in 1..done :
      LET f == current.fields[j] IN
      ~f.alias =>
        \A i \in ownRelations(current, f) :
          LET r == schema.relations[i]
              Related == identifierOf(r.related_collection)
              S == fieldTypeToJsType(f)
          IN  catalogHas(r.related_collection) =>
                /\ r.schema.foreign_key_column # "" =>
                     source[j + 1] =
                        memberLine(f, nullable(f, Related \o " | " \o Related \o "[\""
                                                  \o r.schema.foreign_key_column \o "\"]"))
                /\ (r.schema.foreign_key_column = "" /\ S.tag = "ok") =>
                     source[j + 1] = memberLine(f, nullable(f, Related \o " | " \o S.val))

\* user_tags emitted with tag (no foreign key column) and owner (foreign key column id)
C4_Witness ==
    /\ pc = "fields"
    /\ current.collection = UserTags
    /\ done = 2
    /\ source[2] = memberLine(current.fields[1], "Tag | number")
    /\ source[3] = memberLine(current.fields[2], "Tag | Tag[\"id\"] | null")

(***************************************************************************)
(* C5. Imports of a unit: the unit never imports its own identifier; every *)
(* emitted relation field whose related collection is another collection   *)
(* of the catalog has the import line of that collection's identifier in   *)
(* the unit; no import line occurs twice.                                  *)
(***************************************************************************)
C5_ImportsOfRelatedCollections ==
    pc = "fields" =>
      /\ \A n \in 1..Len(imports) : imports[n] # importLine(className(current).val)
      /\ \A m, n \in 1..Len(imports) : imports[m] = imports[n] => m = n
      /\ \A j \in 1..done :
           LET f == current.fields[j] IN
           resolvedOf(current, f).tag = "ok" =>
             \A i \in ownRelations(current, f) :
               (relatedOf(f, i) # current.collection /\ catalogHas(relatedOf(f, i))) =>
                  \E n \in 1..Len(imports) :
                     imports[n] = importLine(identifierOf(relatedOf(f, i)))

(***************************************************************************)
(* C6 as stated. Every nullable field is emitted with the type T | null,   *)
(* T being the type its resolution gives, and a field that is not nullable *)
(* is emitted without the null marker.                                     *)
(***************************************************************************)
C6_NullableAlwaysWidened ==
    \A j \in 1..done :
      LET f == current.fields[j]
          T == resolvedOf(current, f).type
      IN  /\ f.nullable => source[j + 1] = memberLine(f, T \o " | null")
          /\ ~f.nullable => source[j + 1] \in { memberLine(f, T), memberLine(f, "never") }

(***************************************************************************)
(* C6 amended. A nullable field whose resolution gives the type T is       *)
(* emitted with T | null, the marker appended once after T; a field that   *)
(* is not nullable is emitted with T itself; a field whose resolution      *)
(* raises is emitted with never, without the marker, nullable or not.      *)
(***************************************************************************)
C6_NullableWidenedAfterResolution ==
    \A j \in 1..done :
      LET f == current.fields[j]
          resolved == resolvedOf(current, f)
      IN  /\ (resolved.tag = "ok" /\ f.nullable) =>
                source[j + 1] = memberLine(f, resolved.type \o " | null")
          /\ (resolved.tag = "ok" /\ ~f.nullable) =>
                source[j + 1] = memberLine(f, resolved.type)
          /\ resolved.tag = "throw" => source[j + 1] = memberLine(f, "never")

\* a nullable geometry field with choices, and a nullable field that failed, are emitted
C6_Witness ==
    /\ pc = "fields"
    /\ done = 2
    /\ current.fields[2].nullable
    /\ source[3] = memberLine(current.fields[2], "'a' | 'b\\'c' | null")
    /\ \E c \in 1..Len(console) : console[c].field = "status"

(***************************************************************************)
(* C7. A field that is no relation and whose query returns a non-empty     *)
(* choice list is emitted with the union of the quoted literals of the     *)
(* distinct choice values, in list order, each quote character escaped;    *)
(* with an empty or absent list it is emitted with the Scalar Type         *)
(* Mapper's result.                                                        *)
(***************************************************************************)
RECURSIVE distinctChoices(_, _)
distinctChoices(choices, seen) ==
    IF choices = <<>> THEN <<>>
    ELSE IF choices[1].value \in seen THEN distinctChoices(Tail(choices), seen)
    ELSE <<choices[1]>> \o distinctChoices(Tail(choices), seen \cup {choices[1].value})

RECURSIVE escaped(_)
escaped(chars) ==
    IF chars = <<>> THEN ""
    ELSE (IF chars[1] = "'" THEN "\\'" ELSE chars[1]) \o escaped(Tail(chars))

RECURSIVE unionOf(_)
unionOf(choices) ==
    IF Len(choices) = 1 THEN "'" \o escaped(choices[1].value) \o "'"
    ELSE "'" \o escaped(choices[1].value) \o "' | " \o unionOf(Tail(choices))

C7_UnionOfDistinctChoices ==
    \A j \in 1..done :
      LET f == current.fields[j]
          item == readByQuery(fieldRows, current, f)
          S == fieldTypeToJsType(f)
      IN  (wasQueried(current, f) /\ ~queryFailed(current, f)) =>
            /\ hasChoices(item) =>
                 source[j + 1] =
                    memberLine(f, nullable(f, unionOf(distinctChoices(item.options.choices, {}))))
            /\ (~hasChoices(item) /\ S.tag = "ok") =>
                 source[j + 1] = memberLine(f, nullable(f, S.val))

(***************************************************************************)
(* C8. The index unit holds one import line per collection and one member  *)
(* per collection, both in the order of the catalog; the key of a member   *)
(* is the raw collection name and its value the derived identifier.        *)
(***************************************************************************)
C8_IndexUnit ==
    pc = "exited" =>
      LET index == files[Len(files)].content
          n == Len(collections)
      IN  /\ files[Len(files)].file = "models/index.d.ts"
          /\ Len(index) = 2 * n + 2
          /\ index[n + 1] = "\nexport interface Collections {\n"
          /\ index[2 * n + 2] = "}\n"
          /\ \A i \in 1..n :
               LET T == Str(upperCamelCase(singular(collections[i].collection))) IN
               /\ index[i] = "import { " \o T \o " } from \"./" \o T \o "\";\n"
               /\ index[n + 1 + i] = "  " \o Str(collections[i].collection) \o ": " \o T \o ";\n"

\* the index of the catalog user_tags, tags
C8_Witness ==
    /\ pc = "exited"
    /\ Len(collections) = 2
    /\ files[3].content[1] = "import { UserTag } from \"./UserTag\";\n"
    /\ files[3].content[5] = "  tags: Tag;\n"

(***************************************************************************)
(* C9 as stated. The query is issued only for a field that is no relation, *)
(* and the Scalar Type Mapper is consulted only for a field that is no     *)
(* relation and has no non-empty choice list.                              *)
(***************************************************************************)
isRelation(collection, field) ==
    IF field.alias THEN aliasIndex(field, collection, schema) # 0
    ELSE forwardIndex(field, collection, schema) # 0

C9_MapperOnlyWithoutRelation ==
    \A j \in 1..done :
      LET f == current.fields[j] IN
      /\ wasQueried(current, f) => ~isRelation(current, f)
      /\ mapperConsulted(current, f) =>
           /\ ~isRelation(current, f)
           /\ ~hasChoices(readByQuery(fieldRows, current, f))

(***************************************************************************)
(* C9 amended. The query is issued exactly for the fields the relation     *)
(* classifier finds to be no relation.  The Scalar Type Mapper is          *)
(* consulted exactly when the answered query gave no non-empty choice      *)
(* list, or when the field is a forward relation to a collection of the    *)
(* catalog without a foreign key column.  A relation field is emitted with *)
(* its relation type, or never when its resolution raises, whatever        *)
(* choices are configured; a field whose query gave a non-empty choice     *)
(* list is emitted with the literal union of the list, or never when a     *)
(* value is no string, whatever its scalar kind.                           *)
(***************************************************************************)
C9_ResolutionOrder ==
    \A j \in 1..done :
      LET f == current.fields[j]
          rel == isRelation(current, f)
          relation == IF f.alias THEN aliasToType(f, current, schema)
                      ELSE fieldToRelationType(f, current, schema)
          item == readByQuery(fieldRows, current, f)
          answered == wasQueried(current, f) /\ ~queryFailed(current, f)
          forward == schema.relations[forwardIndex(f, current, schema)]
          union == choicesToType(item.options.choices)
      IN  /\ wasQueried(current, f) <=> ~rel
          /\ mapperConsulted(current, f) <=>
               \/ answered /\ ~hasChoices(item)
               \/ /\ rel /\ ~f.alias
                  /\ catalogHas(forward.related_collection)
                  /\ forward.schema.foreign_key_column = ""
          /\ (rel /\ relation.tag = "ok") =>
               source[j + 1] = memberLine(f, nullable(f, relation.val[1]))
          /\ (rel /\ relation.tag = "throw") => source[j + 1] = memberLine(f, "never")
          /\ (answered /\ hasChoices(item)) =>
               source[j + 1] = memberLine(f, IF union.tag = "ok" THEN nullable(f, union.val)
                                             ELSE "never")

\* parent, a relation with configured choices, is emitted as its relation type unqueried,
\* after a column whose mapper was consulted inside the relation classifier
C9_Witness ==
    /\ pc = "fields"
    /\ done >= 1
    /\ current.fields[1].field = "parent"
    /\ hasChoices(readByQuery(fieldRows, current, current.fields[1]))
    /\ source[2] = memberLine(current.fields[1], "Tag | Tag[\"id\"] | null")
    /\ queries = <<>>
    /\ Len(mapperLog) = 1

(***************************************************************************)
(* C10 as stated. After a failure of mkdir, of a file write or of the      *)
(* metadata query the run is aborted.                                      *)
(***************************************************************************)
C10_EveryFailureAborts ==
    (ioFailure # "none" \/ failedQueries > 0) => pc = "aborted"

(***************************************************************************)
(* C10 amended. A failure of mkdir or of a file write aborts the run: no   *)
(* file is written with or after it and nothing follows the abort; the     *)
(* run exits only without such a failure, after the unit of every          *)
(* collection and then the index have been written.  A failure of the      *)
(* metadata query is recovered in the field: the field is emitted with     *)
(* never and the run goes on.                                              *)
(***************************************************************************)
C10_FailHardAtFileSystem ==
    [][ /\ pc \notin {"aborted", "exited"}
        /\ ioFailure' # "none" => (pc' = "aborted" /\ files' = files)
        /\ pc' = "exited" =>
             /\ ioFailure' = "none"
             /\ Len(files') = Len(collections) + 1
             /\ \A k \in 1..Len(collections) : files'[k].file = outFile(collections[k])
             /\ files'[Len(files')].file = "models/index.d.ts"
        /\ Len(queries') > Len(queries) /\ ~queries'[Len(queries')].ok =>
             /\ pc' = "fields"
             /\ ioFailure' = "none"
             /\ source'[Len(source')] = memberLine(current.fields[fi], "never")
      ]_vars

\* a write fails after one unit was written and after a query failure that did not abort
C10_Witness ==
    /\ pc = "aborted"
    /\ ioFailure = "write"
    /\ Len(files) = 1
    /\ failedQueries = 1

====
